---------------------------- MODULE Spec2Model ----------------------------
(***************************************************************************)
(* fast_whitespace_collapse: collapse_whitespace (src/src/lib.rs) run one  *)
(* byte at a time, and the scalar reference iterative_bytes                *)
(* (src/benches/collapse.rs).                                              *)
(*                                                                         *)
(* Bytes are integers 0..255; a text is a sequence of bytes.  The state    *)
(* is the locals of one call of collapse_whitespace plus the position of   *)
(* the call in its three loops.                                            *)
(***************************************************************************)
EXTENDS Integers, Sequences, FiniteSets

(***************************************************************************)
(* Program constants.                                                      *)
(***************************************************************************)
\* b' ' (lib.rs:33, 58, 73, 75, 86)
SPACE == 32

\* b'\t' (lib.rs:34, 73)
TAB == 9

\* lanes of u8x16: `while i + 16 <= len`, `i += 16` (lib.rs:39, 41, 67)
LANES == 16

\* the lane value of a true comparison: `mask_byte == 0xFF` (lib.rs:53, 55)
ALL_ONES == 255

(***************************************************************************)
(* Bounds of the model: the inputs are texts of at most MaxRuns blocks.     *)
(* A block is one character, or a pad of LANES-1 or LANES spaces, tabs or  *)
(* letters, so that what follows a pad starts on the last lane of a chunk  *)
(* or on the first lane of the next.  Widths 1..MaxWidth (and LANES) are   *)
(* the processing widths the width-generic form of the algorithm is        *)
(* evaluated with.                                                         *)
(***************************************************************************)
MaxRuns == 3

MaxWidth == 4

\* The characters of the inputs, each a valid UTF-8 encoding: space, tab,
\* line feed, "A", and the two-byte U+00E9 (0xC3 0xA9).
Chars == { <<32>>, <<9>>, <<10>>, <<65>>, <<195, 169>> }

PadChars == { <<32>>, <<9>>, <<65>> }

Runs == (Chars \X {1}) \cup (PadChars \X {LANES - 1, LANES})

RECURSIVE Repeat(_, _)
Repeat(c, n) == IF n = 0 THEN << >> ELSE c \o Repeat(c, n - 1)

RECURSIVE Flatten(_)
Flatten(rs) ==
    IF rs = << >> THEN << >>
    ELSE Repeat(Head(rs)[1], Head(rs)[2]) \o Flatten(Tail(rs))

(***************************************************************************)
(* u8x16 operations of the `wide` crate used by collapse_whitespace.       *)
(***************************************************************************)
\* u8x16::splat(b): every lane is b (lib.rs:33-34); w is the lane count.
splat(b, w) == [k \in 1..w |-> b]

\* chunk.cmp_eq(other): lane-wise, 0xFF where equal, 0x00 elsewhere
\* (lib.rs:45-46).
cmp_eq(chunk, other) ==
    [k \in 1..Len(chunk) |-> IF chunk[k] = other[k] THEN ALL_ONES ELSE 0]

\* bitwise or of two bytes, bit by bit unless one operand is 0 or both
\* are the same
BitOr(a, b) ==
    LET bit(x, k) == (x \div (2 ^ k)) % 2
        or[k \in 0..8] ==
            IF k = 8 THEN 0
            ELSE (IF bit(a, k) = 1 \/ bit(b, k) = 1 THEN 2 ^ k ELSE 0) + or[k + 1]
    IN  IF a = 0 THEN b
        ELSE IF b = 0 \/ a = b THEN a
        ELSE or[0]

\* cmp_space | cmp_tab: lane-wise bitwise or (lib.rs:47).
lane_or(x, y) == [k \in 1..Len(x) |-> BitOr(x[k], y[k])]

\* MaskOf with the tab comparison left out of the mask
MaskOf_SpaceOnly(chunk) == cmp_eq(chunk, splat(SPACE, Len(chunk)))

\* mask_arr of a chunk (lib.rs:45-51).
MaskOf(chunk) ==
    lane_or(cmp_eq(chunk, splat(SPACE, Len(chunk))),
            cmp_eq(chunk, splat(TAB, Len(chunk))))

(***************************************************************************)
(* The per-byte steps.  st is [result, last_was_space].                    *)
(***************************************************************************)
\* NewState with the flag starting false
NewState_FlagFalse == [result |-> << >>, last_was_space |-> FALSE]

\* `let mut result = Vec::with_capacity(len); ... let mut last_was_space =
\* true;` (lib.rs:31, 37)
NewState == [result |-> << >>, last_was_space |-> TRUE]

\* BulkLane pushing a space for every whitespace lane, whatever the flag
BulkLane_NoFlagCheck(st, byte, mask_byte) ==
    IF mask_byte = ALL_ONES
    THEN [result |-> Append(st.result, SPACE), last_was_space |-> TRUE]
    ELSE [result |-> Append(st.result, byte), last_was_space |-> FALSE]

\* BulkLane pushing the mask lane in place of the chunk lane
BulkLane_PushMask(st, byte, mask_byte) ==
    IF mask_byte = ALL_ONES
    THEN IF ~st.last_was_space
         THEN [result |-> Append(st.result, SPACE), last_was_space |-> TRUE]
         ELSE st
    ELSE [result |-> Append(st.result, mask_byte), last_was_space |-> FALSE]

\* BulkLane testing the mask lane against 1 in place of 0xFF
BulkLane_MaskOne(st, byte, mask_byte) ==
    IF mask_byte = 1
    THEN IF ~st.last_was_space
         THEN [result |-> Append(st.result, SPACE), last_was_space |-> TRUE]
         ELSE st
    ELSE [result |-> Append(st.result, byte), last_was_space |-> FALSE]

\* body of the for loop over the lanes of a chunk (lib.rs:54-65)
BulkLane(st, byte, mask_byte) ==
    LET is_whitespace == (mask_byte = ALL_ONES)
    IN  IF is_whitespace
        THEN IF ~st.last_was_space
             THEN [result |-> Append(st.result, SPACE), last_was_space |-> TRUE]
             ELSE st
        ELSE [result |-> Append(st.result, byte), last_was_space |-> FALSE]

\* ScalarByte testing for the space alone
ScalarByte_SpaceOnly(st, b) ==
    IF b = SPACE
    THEN IF ~st.last_was_space
         THEN [result |-> Append(st.result, SPACE), last_was_space |-> TRUE]
         ELSE st
    ELSE [result |-> Append(st.result, b), last_was_space |-> FALSE]

\* ScalarByte leaving the flag as it is after a byte that is no whitespace
ScalarByte_FlagNotCleared(st, b) ==
    IF b = SPACE \/ b = TAB
    THEN IF ~st.last_was_space
         THEN [result |-> Append(st.result, SPACE), last_was_space |-> TRUE]
         ELSE st
    ELSE [result |-> Append(st.result, b), last_was_space |-> st.last_was_space]

\* body of the scalar loop (lib.rs:72-81)
ScalarByte(st, b) ==
    IF b = SPACE \/ b = TAB
    THEN IF ~st.last_was_space
         THEN [result |-> Append(st.result, SPACE), last_was_space |-> TRUE]
         ELSE st
    ELSE [result |-> Append(st.result, b), last_was_space |-> FALSE]

\* TrimTrailing popping the last byte whatever it is
TrimTrailing_Always(res) ==
    IF res # << >> THEN SubSeq(res, 1, Len(res) - 1) ELSE res

\* `if result.last() == Some(&b' ') { result.pop(); }` (lib.rs:86-88)
TrimTrailing(res) ==
    IF res # << >> /\ res[Len(res)] = SPACE
    THEN SubSeq(res, 1, Len(res) - 1)
    ELSE res

(***************************************************************************)
(* The call as a function of its input.  CollapseW is the two-tier         *)
(* algorithm at processing width w; collapse_whitespace is its instance    *)
(* at the width of the code.  Each loop is the left-to-right fold of its   *)
(* body; the range of a loop is halved, and the state after the first      *)
(* half is evaluated before the second half starts, only to keep the       *)
(* depth of evaluation logarithmic in the length of the input.             *)
(***************************************************************************)
\* st is evaluated (to a record with a Boolean flag)
Settled(st) == st.last_was_space \in BOOLEAN

\* the for loop over the lanes lo..hi of a chunk (lib.rs:54-65)
RECURSIVE WalkLanes(_, _, _, _, _)
WalkLanes(st, chunk, mask, lo, hi) ==
    IF lo > hi THEN st
    ELSE IF lo = hi THEN BulkLane(st, chunk[lo], mask[lo])
    ELSE LET mid == (lo + hi) \div 2
             left == WalkLanes(st, chunk, mask, lo, mid)
         IN  IF Settled(left) THEN WalkLanes(left, chunk, mask, mid + 1, hi) ELSE left

\* the scalar loop over the bytes lo..hi (1-based) of bs (lib.rs:71-83)
RECURSIVE ScalarTier(_, _, _, _)
ScalarTier(st, bs, lo, hi) ==
    IF lo > hi THEN st
    ELSE IF lo = hi THEN ScalarByte(st, bs[lo])
    ELSE LET mid == (lo + hi) \div 2
             left == ScalarTier(st, bs, lo, mid)
         IN  IF Settled(left) THEN ScalarTier(left, bs, mid + 1, hi) ELSE left

\* one iteration of the chunk loop, on the c-th chunk (c = 0, 1, ...) of
\* width w of bs (lib.rs:40-67)
OneChunk(st, bs, w, c) ==
    LET chunk == SubSeq(bs, c * w + 1, c * w + w)
    IN  WalkLanes(st, chunk, MaskOf(chunk), 1, w)

\* the chunk loop over the chunks lo..hi of bs (lib.rs:39-68)
RECURSIVE BulkTier(_, _, _, _, _)
BulkTier(st, bs, w, lo, hi) ==
    IF lo > hi THEN st
    ELSE IF lo = hi THEN OneChunk(st, bs, w, lo)
    ELSE LET mid == (lo + hi) \div 2
             left == BulkTier(st, bs, w, lo, mid)
         IN  IF Settled(left) THEN BulkTier(left, bs, w, mid + 1, hi) ELSE left

\* lib.rs:28-92 with 16 replaced by w: `while i + w <= len` runs over the
\* Len(bs) \div w complete chunks, `while i < len` over the bytes after them
CollapseW(bs, w) ==
    LET chunks == Len(bs) \div w
        bulk == BulkTier(NewState, bs, w, 0, chunks - 1)
        all == IF Settled(bulk) THEN ScalarTier(bulk, bs, chunks * w + 1, Len(bs)) ELSE bulk
    IN  TrimTrailing(all.result)

\* pub fn collapse_whitespace (lib.rs:28-92)
collapse_whitespace(bs) == CollapseW(bs, LANES)

(***************************************************************************)
(* The scalar reference of the benchmark harness.                          *)
(***************************************************************************)
\* body of `for &b in bytes` of iterative_bytes (collapse.rs:40-50)
IterByte(st, b) ==
    IF b = SPACE \/ b = TAB
    THEN IF ~st.last_was_space
         THEN [result |-> Append(st.result, SPACE), last_was_space |-> TRUE]
         ELSE st
    ELSE [result |-> Append(st.result, b), last_was_space |-> FALSE]

\* `for &b in bytes { ... }` over the bytes lo..hi of bs (collapse.rs:40-50)
RECURSIVE IterLoop(_, _, _, _)
IterLoop(st, bs, lo, hi) ==
    IF lo > hi THEN st
    ELSE IF lo = hi THEN IterByte(st, bs[lo])
    ELSE LET mid == (lo + hi) \div 2
             left == IterLoop(st, bs, lo, mid)
         IN  IF Settled(left) THEN IterLoop(left, bs, mid + 1, hi) ELSE left

\* fn iterative_bytes (collapse.rs:34-59)
iterative_bytes(bs) ==
    LET res == IterLoop([result |-> << >>, last_was_space |-> TRUE],
                        bs, 1, Len(bs)).result
    IN  IF res # << >> /\ res[Len(res)] = SPACE
        THEN SubSeq(res, 1, Len(res) - 1)
        ELSE res

(***************************************************************************)
(* One call of collapse_whitespace.                                        *)
(***************************************************************************)
VARIABLES
    bytes,           \* input.as_bytes()
    result,          \* the output buffer
    i,               \* index of the next chunk or of the next leftover byte
    last_was_space,  \* the run-state flag
    chunk_arr,       \* the chunk being walked
    mask_arr,        \* its whitespace mask
    lane,            \* lanes of the chunk already walked
    pc               \* "bulk", "lanes", "scalar", "trim", "done"

vars == <<bytes, result, i, last_was_space, chunk_arr, mask_arr, lane, pc>>

\* `let len = bytes.len();` (lib.rs:30)
len == Len(bytes)

Init ==
    /\ \E n \in 0..MaxRuns : \E rs \in [1..n -> Runs] : bytes = Flatten(rs)
    /\ result = NewState.result
    /\ last_was_space = NewState.last_was_space
    /\ i = 0
    /\ chunk_arr = << >>
    /\ mask_arr = << >>
    /\ lane = 0
    /\ pc = "bulk"

\* LoadChunk with the flag declared inside the chunk loop
LoadChunk_ResetFlag ==
    /\ pc = "bulk"
    /\ i + LANES <= len
    /\ chunk_arr' = SubSeq(bytes, i + 1, i + LANES)
    /\ mask_arr' = MaskOf(SubSeq(bytes, i + 1, i + LANES))
    /\ lane' = 0
    /\ pc' = "lanes"
    /\ last_was_space' = FALSE
    /\ UNCHANGED <<bytes, result, i>>

\* `while i + 16 <= len` holds: load the chunk and its mask (lib.rs:39-51)
LoadChunk ==
    /\ pc = "bulk"
    /\ i + LANES <= len
    /\ chunk_arr' = SubSeq(bytes, i + 1, i + LANES)
    /\ mask_arr' = MaskOf(SubSeq(bytes, i + 1, i + LANES))
    /\ lane' = 0
    /\ pc' = "lanes"
    /\ UNCHANGED <<bytes, result, i, last_was_space>>

\* one iteration of the for loop over the zipped lanes (lib.rs:54-65)
LaneStep ==
    /\ pc = "lanes"
    /\ lane < LANES
    /\ LET st == BulkLane([result |-> result, last_was_space |-> last_was_space],
                          chunk_arr[lane + 1], mask_arr[lane + 1])
       IN  /\ result' = st.result
           /\ last_was_space' = st.last_was_space
    /\ lane' = lane + 1
    /\ UNCHANGED <<bytes, i, chunk_arr, mask_arr, pc>>

\* ChunkDone advancing i by one less than the chunk
ChunkDone_ShortAdvance ==
    /\ pc = "lanes"
    /\ lane = LANES
    /\ i' = i + LANES - 1
    /\ pc' = "bulk"
    /\ UNCHANGED <<bytes, result, last_was_space, chunk_arr, mask_arr, lane>>

\* the for loop is over: `i += 16` (lib.rs:67)
ChunkDone ==
    /\ pc = "lanes"
    /\ lane = LANES
    /\ i' = i + LANES
    /\ pc' = "bulk"
    /\ UNCHANGED <<bytes, result, last_was_space, chunk_arr, mask_arr, lane>>

\* `while i + 16 <= len` fails: on to the leftover bytes (lib.rs:39, 70)
BulkExit ==
    /\ pc = "bulk"
    /\ ~(i + LANES <= len)
    /\ pc' = "scalar"
    /\ UNCHANGED <<bytes, result, i, last_was_space, chunk_arr, mask_arr, lane>>

\* one iteration of `while i < len` (lib.rs:71-83)
ScalarStep ==
    /\ pc = "scalar"
    /\ i < len
    /\ LET st == ScalarByte([result |-> result, last_was_space |-> last_was_space],
                            bytes[i + 1])
       IN  /\ result' = st.result
           /\ last_was_space' = st.last_was_space
    /\ i' = i + 1
    /\ UNCHANGED <<bytes, chunk_arr, mask_arr, lane, pc>>

\* `while i < len` fails (lib.rs:71, 85)
ScalarExit ==
    /\ pc = "scalar"
    /\ ~(i < len)
    /\ pc' = "trim"
    /\ UNCHANGED <<bytes, result, i, last_was_space, chunk_arr, mask_arr, lane>>

\* remove the trailing space and return (lib.rs:86-91)
Trim ==
    /\ pc = "trim"
    /\ result' = TrimTrailing(result)
    /\ pc' = "done"
    /\ UNCHANGED <<bytes, i, last_was_space, chunk_arr, mask_arr, lane>>

Next ==
    \/ LoadChunk
    \/ LaneStep
    \/ ChunkDone
    \/ BulkExit
    \/ ScalarStep
    \/ ScalarExit
    \/ Trim

Spec == Init /\ [][Next]_vars

(***************************************************************************)
(* Vocabulary of the properties, stated on the input and the output alone. *)
(***************************************************************************)
Collapsible(b) == b \in {32, 9}

Last(s) == s[Len(s)]

\* s with its space and tab bytes deleted
Strip(s) == SelectSeq(s, LAMBDA b : ~Collapsible(b))

\* what position k of bs leaves in the output: a byte that is no space or
\* tab leaves itself; the first byte of a run of spaces and tabs leaves one
\* space when a byte that is no space or tab occurs before the run and
\* another after it; every other byte leaves nothing
Leaves(bs, k) ==
    IF ~Collapsible(bs[k]) THEN <<bs[k]>>
    ELSE IF /\ k > 1
            /\ ~Collapsible(bs[k - 1])
            /\ \E m \in (k + 1)..Len(bs) : ~Collapsible(bs[m])
         THEN <<32>>
         ELSE << >>

\* what the positions lo..hi of bs leave, in order
RECURSIVE RunImage(_, _, _)
RunImage(bs, lo, hi) ==
    IF lo > hi THEN << >>
    ELSE IF lo = hi THEN Leaves(bs, lo)
    ELSE LET mid == (lo + hi) \div 2
         IN  RunImage(bs, lo, mid) \o RunImage(bs, mid + 1, hi)

\* input bytes consumed so far
Consumed == i + (IF pc = "lanes" THEN lane ELSE 0)

Widths == (1..MaxWidth) \cup {LANES}

(***************************************************************************)
(* C1: every maximal run of spaces and tabs of the input becomes exactly   *)
(* one space of the output, except a run that is a prefix or a suffix of   *)
(* the input, which leaves nothing; a run right after a line feed is an    *)
(* interior run.                                                           *)
(***************************************************************************)
C1_RunsCollapsed == pc = "done" => result = RunImage(bytes, 1, len)

\* a line feed, then a run that crosses the chunk boundary, then a letter
C1_Witness ==
    /\ pc = "done"
    /\ len > LANES
    /\ bytes[1] = 10
    /\ \A k \in 2..(len - 1) : Collapsible(bytes[k])
    /\ result = <<10, 32, 65>>

(***************************************************************************)
(* C2: deleting the spaces and tabs of the output gives exactly what       *)
(* deleting the spaces and tabs of the input gives.                        *)
(***************************************************************************)
C2_NonWhitespacePreserved == pc = "done" => Strip(result) = Strip(bytes)

\* a two-byte character split by the chunk boundary, next to whitespace
C2_Witness ==
    /\ pc = "done"
    /\ len > LANES
    /\ bytes[LANES] = 195
    /\ bytes[LANES + 1] = 169
    /\ \E k \in 1..len : Collapsible(bytes[k])
    /\ \E k \in 1..Len(result) : result[k] = 195

(***************************************************************************)
(* C3: the two-tier algorithm returns what the scalar reference            *)
(* iterative_bytes returns, at the width of the code and at every other    *)
(* width.                                                                  *)
(***************************************************************************)
C3_TwoTierIsScalar ==
    pc = "done" =>
        /\ result = iterative_bytes(bytes)
        /\ \A w \in Widths : CollapseW(bytes, w) = iterative_bytes(bytes)

\* a run that starts on the last lane of the first chunk and goes on into
\* the second, in an input of exactly two chunks
C3_Witness ==
    /\ pc = "done"
    /\ len = 2 * LANES
    /\ ~Collapsible(bytes[LANES - 1])
    /\ Collapsible(bytes[LANES])
    /\ Collapsible(bytes[LANES + 1])
    /\ ~Collapsible(bytes[len])
    /\ Len(result) = LANES + 1

(***************************************************************************)
(* C4: collapsing the output again changes nothing.                        *)
(***************************************************************************)
C4_Idempotent == pc = "done" => collapse_whitespace(result) = result

\* an output that differs from its input and still holds a separator
C4_Witness ==
    /\ pc = "done"
    /\ len >= LANES
    /\ result # bytes
    /\ \E k \in 1..Len(result) : result[k] = 32

(***************************************************************************)
(* C5: the output buffer never holds two spaces in a row.                  *)
(***************************************************************************)
C5_NoDoubleSpace ==
    \A k \in 1..(Len(result) - 1) : ~(result[k] = 32 /\ result[k + 1] = 32)

\* a run that starts in the last chunk and ends among the leftover bytes
C5_Witness ==
    /\ pc = "done"
    /\ len > LANES
    /\ len < 2 * LANES
    /\ Collapsible(bytes[LANES])
    /\ Collapsible(bytes[LANES + 1])
    /\ \E k \in 1..Len(result) : result[k] = 32

(***************************************************************************)
(* C6: the output is empty, or neither starts nor ends with a space.       *)
(***************************************************************************)
C6_NoOuterSpace ==
    pc = "done" => \/ result = << >>
                   \/ result[1] # 32 /\ Last(result) # 32

\* an input that starts and ends with whitespace around some text
C6_Witness ==
    /\ pc = "done"
    /\ len > 0
    /\ Collapsible(bytes[1])
    /\ Collapsible(bytes[len])
    /\ result # << >>

(***************************************************************************)
(* C7: an input without any byte other than spaces and tabs gives the      *)
(* empty output.                                                           *)
(***************************************************************************)
C7_BlankGivesEmpty ==
    (pc = "done" /\ \A k \in 1..len : Collapsible(bytes[k])) => result = << >>

\* spaces and tabs only, more than a chunk of them
C7_Witness ==
    /\ pc = "done"
    /\ len > LANES
    /\ \A k \in 1..len : Collapsible(bytes[k])
    /\ \E k \in 1..len : bytes[k] = 32
    /\ \E k \in 1..len : bytes[k] = 9
    /\ result = << >>

(***************************************************************************)
(* C8 as stated: at every point the output buffer holds at most i bytes,   *)
(* and i is at most len.                                                   *)
(***************************************************************************)
C8_AsStated == Len(result) <= i /\ i <= len

(***************************************************************************)
(* C8: at every point the output buffer holds at most as many bytes as     *)
(* input bytes were consumed (i plus the lanes walked of the current       *)
(* chunk), which is at most len; between chunks and among the leftover     *)
(* bytes that number is i.                                                 *)
(***************************************************************************)
C8_LengthBound ==
    /\ Len(result) <= Consumed
    /\ Consumed <= len
    /\ pc # "lanes" => Len(result) <= i /\ i <= len

\* inside a chunk, the buffer longer than i
C8_Witness ==
    /\ pc = "lanes"
    /\ lane > 0
    /\ Len(result) > i
    /\ Len(result) = Consumed

(***************************************************************************)
(* C9: every step leaves the output buffer alone, appends one space, or    *)
(* appends the input byte being processed, which is then no space and no   *)
(* tab (the trim removes one byte); the returned text holds no tab, and    *)
(* each of its maximal blocks of bytes other than space is a contiguous    *)
(* block of the input.                                                     *)
(***************************************************************************)
C9_Appends ==
    \/ result' = result
    \/ result' = Append(result, 32)
    \/ /\ pc \in {"lanes", "scalar"}
       /\ ~Collapsible(bytes[Consumed + 1])
       /\ result' = Append(result, bytes[Consumed + 1])
    \/ /\ pc = "trim"
       /\ result # << >>
       /\ result' = SubSeq(result, 1, Len(result) - 1)

C9_Returned ==
    pc = "done" =>
        /\ \A k \in 1..Len(result) : result[k] # 9
        /\ \A a \in 1..Len(result) :
              (result[a] # 32 /\ (a = 1 \/ result[a - 1] = 32)) =>
                  LET b == CHOOSE e \in a..Len(result) :
                               /\ \A k \in a..e : result[k] # 32
                               /\ e = Len(result) \/ result[e + 1] = 32
                  IN  \E s \in 0..(len - (b - a + 1)) :
                          \A k \in 0..(b - a) : bytes[s + 1 + k] = result[a + k]

C9_OnlySpaceOrCopy == [][C9_Appends]_vars /\ []C9_Returned

\* tabs in the input, and a block of two-byte characters that crosses the
\* chunk boundary
C9_Witness ==
    /\ pc = "done"
    /\ len > LANES
    /\ \E k \in 1..len : bytes[k] = 9
    /\ bytes[LANES] = 195
    /\ bytes[LANES + 1] = 169
    /\ Len(result) > LANES
    /\ result[LANES] = 195
    /\ result[LANES + 1] = 169

(***************************************************************************)
(* C10: until the trim, the flag is true exactly when the output buffer    *)
(* is empty or ends with a space, and false exactly when it ends with a    *)
(* byte that is no space and no tab.                                       *)
(***************************************************************************)
C10_FlagMatchesBuffer ==
    pc # "done" =>
        /\ last_was_space <=> (result = << >> \/ Last(result) = 32)
        /\ ~last_was_space <=> (result # << >> /\ ~Collapsible(Last(result)))

\* among the leftover bytes after a chunk, the flag set by an emitted space
C10_Witness ==
    /\ pc = "scalar"
    /\ i > LANES
    /\ i < len
    /\ last_was_space
    /\ result # << >>
    /\ Last(result) = 32

=============================================================================
